---- MODULE Spec2Model ----
(***************************************************************************)
(* Walk/turn state machine, formation controller and gait-phase            *)
(* accumulator of the point-cloud animation loop (src/main.js, animate and *)
(* the handlers that write the state it reads).                            *)
(*                                                                         *)
(* Units.  Time is counted in ticks of 750 ms, so every duration of the    *)
(* source is an integer: formationDuration = 3000 ms = 4 ticks,            *)
(* turnDuration = 10.5 s = 14 ticks.  performance.now() is not kept as an  *)
(* absolute reading: the code only ever uses the differences               *)
(* now - formationStart, now - turnStart and the clock's delta, so the     *)
(* state holds exactly these differences.                                  *)
(* Angles are counted in units of pi / turnDuration^2, which makes the     *)
(* ease-in-out quadratic exact.  Blend factors are counted in units of     *)
(* 1 / (1000 * formationDuration^3), which makes the ease-out cubic and    *)
(* the 0.001 steps of the explode slider exact.  Lengths are in an         *)
(* arbitrary unit, speeds in length units per tick, gait phase in units of *)
(* 1/20 cycle.  Point coordinates are kept multiplied by the blend unit,   *)
(* so the blended base position is exact; sines are tabulated to 1/1000.   *)
(* The pointer never enters the cloud here: hoverPointLocal stays null and *)
(* animate takes its relax-toward-base branch; the wobble of the hover     *)
(* branch is a function of one point and is modelled as such.              *)
(* clock.elapsedTime is read only as elapsed * params.gaitFreq, which no   *)
(* handler changes after start-up, so the state holds that product, in     *)
(* units of 1/20 cycle and modulo two cycles (the period of the sway).     *)
(* Time below one tick matters only to the colour throttle, which counts   *)
(* it in quarters of 1000 / targetColorFPS ms.                             *)
(***************************************************************************)
EXTENDS Integers, Sequences, FiniteSets, TLC

VARIABLES
    loaded,               \* tiger / tigerGroup exist (GLTF callback has run)
    delta,                \* time since the last clock.getDelta()
    sinceFormationStart,  \* performance.now() - formationStart
    formationDone,
    formationExplode,     \* animate's local of the last frame
    fEff,                 \* animate's local of the last frame
    params,               \* the fields of params the core reads
    posX,                 \* tigerGroup.position.x
    rotY,                 \* tigerGroup.rotation.y
    walkDirection,
    walkRange,
    isTurning,
    sinceTurnStart,       \* performance.now() - turnStart
    turnFrom,
    turnDelta,
    gaitPhase,
    originalVertices,     \* rest positions, 3 per point
    startVertices,        \* scattered start positions, 3 per point
    stripeCoord,          \* per-point stripe coordinate, in 1/1000
    arr,                  \* position attribute array, 3 per point
    elapsedPhase,         \* clock.elapsedTime * params.gaitFreq
    bobY,                 \* tiger.position.y, in 1/1000000
    swayZ,                \* tiger.position.z, in 1/1000000
    addPitch,             \* gait pitch in tiger.rotation.x, in 1/1000 degree
    material,             \* which material tiger.material is: "cpu" or "gpu"
    vertexColors,         \* the vertexColors flag of either material
    colorLen,             \* length of the color attribute, 0 if there is none
    cpuColor,             \* cpuPointsMaterial.color
    sinceColorUpdate,     \* performance.now() - lastColorUpdate
    stripePoint,          \* one point of updateStripeColors: inputs, result
    hoverPoint,           \* one point of the hover branch: inputs, result
    relaxPoint,           \* one coordinate relaxing at two frame rates
    wobbleIntensity,      \* in 1/10000
    yawDeg,               \* pose.yawDeg, in 1/1000 degree
    frameOrder,           \* the blocks of animate the last frame ran, in order
    twin                  \* the formation state of two runs side by side

clockVars == << delta >>
formVars == << sinceFormationStart, formationDone >>
frameVars == << formationExplode, fEff >>
walkVars == << posX, rotY, walkDirection, walkRange, isTurning,
                sinceTurnStart, turnFrom, turnDelta, gaitPhase >>
cloudVars == << originalVertices, startVertices, stripeCoord >>

bodyVars == << elapsedPhase, bobY, swayZ, addPitch >>
stripeVars == << material, vertexColors, colorLen, cpuColor, sinceColorUpdate >>

pointVars == << stripePoint, hoverPoint, relaxPoint >>

hoverVars == << wobbleIntensity >>
poseVars == << yawDeg, frameOrder >>
twinVars == << twin >>

vars == << loaded, clockVars, formVars, frameVars, params, walkVars,
           cloudVars, arr, bodyVars, stripeVars, pointVars, hoverVars,
           poseVars, twinVars >>

----------------------------------------------------------------------------
(* Bounds of the model *)

MaxDt == 2            \* longest gap between two clock readings, in ticks
Slack == 1            \* how far past a duration an elapsed time is tracked
MaxGaitPhase == 440   \* cap of the gait-phase accumulator
MaxRelaxSteps == 3    \* frames of 1/30 s a relaxation is followed for

CameraZ == {160, 320}          \* camera.position.z when the range is set
GuiWalkSpeed == {0, 72}        \* values of the Walk Speed slider
GuiExplode == {0, 100}         \* values of the Explode slider, in 1/1000
SavedExplode == {0, 1500}      \* explode values found in saved settings
PointCounts == {1, 2}          \* values of the Density slider
StartRadius == {10, 12}        \* radii drawn for the start shell
SavedGaitFreq == {0, 18}
Colors == {1, 2}
GuiWobbleMult == {2, 50}       \* values of the Wobble / Intensity x slider

----------------------------------------------------------------------------
(* Arithmetic helpers *)

Min(a, b) == IF a <= b THEN a ELSE b
Max(a, b) == IF a >= b THEN a ELSE b
Cube(a) == a * a * a

\* JavaScript's % : the remainder takes the sign of the dividend
JsRem(a, m) == IF a >= 0 THEN a % m ELSE -((-a) % m)

\* Math.sin(2 * pi * k / 20), in 1/1000
SinMilli(k) ==
    LET tab == << 0, 309, 588, 809, 951, 1000, 951, 809, 588, 309,
                  0, -309, -588, -809, -951, -1000, -951, -809, -588, -309 >>
    IN  tab[(k % 20) + 1]

Ticks(ms) == ms \div 750

formationDuration == Ticks(3000)
turnDuration == Ticks(10500)

PI == turnDuration * turnDuration
TAU == PI * 2

One == 1000 * Cube(formationDuration)

DefaultGaitFreq == 18        \* params.gaitFreq = 1.2 Hz = 18/20 cycle per tick
DefaultPointCount == 2       \* DEFAULTS.pointCount, scaled to the model
gaitFrontSplit == 550        \* params.gaitFrontSplit = 0.55, in 1/1000
gaitHeadBobAmp == (2 * One) \div 100    \* params.gaitHeadBobAmp = 0.02
gaitTailSwayAmp == (2 * One) \div 100   \* params.gaitTailSwayAmp = 0.02
gaitBobAmp == 30             \* params.gaitBobAmp = 0.03, in 1/1000
gaitSwayAmp == 20            \* params.gaitSwayAmp = 0.02, in 1/1000
gaitPitchAmpDeg == 2         \* params.gaitPitchAmpDeg = 2.0
DefaultColor == 1            \* DEFAULTS.color
DefaultWobbleMult == 20      \* params.wobbleIntensityMult = 2.0, in 1/10
InitialWobbleIntensity == 1000   \* let wobbleIntensity = 0.1
targetColorFPS == 45

\* sin(2 pi k / 40) in 1/1000
Sin40Milli(k) ==
    LET tab == << 0, 156, 309, 454, 588, 707, 809, 891, 951, 988,
                  1000, 988, 951, 891, 809, 707, 588, 454, 309, 156,
                  0, -156, -309, -454, -588, -707, -809, -891, -951, -988,
                  -1000, -988, -951, -891, -809, -707, -588, -454, -309, -156 >>
    IN  tab[(k % 40) + 1]

\* two gait cycles, in 1/20 cycle
ElapsedPeriod == 40

\* phase = elapsed * params.gaitFreq * Math.PI * 2 after a clock delta of dt
ElapsedPhaseAfter(phase, freq, dt) == (phase + dt * freq) % ElapsedPeriod

\* Math.sin(phase) * params.gaitBobAmp
BodyBob(phase) == SinMilli(phase) * gaitBobAmp

\* Math.sin(phase * 0.5 + Math.PI * 0.25) * params.gaitSwayAmp
BodySway(phase) == Sin40Milli(phase + 5) * gaitSwayAmp

\* Math.sin(phase) * params.gaitPitchAmpDeg, before degToRad
BodyPitch(phase) == SinMilli(phase) * gaitPitchAmpDeg

\* minDelta = 1000 / targetColorFPS, in quarters of that interval
ColourTicksPerSecond == 4 * targetColorFPS
minDelta == ColourTicksPerSecond \div targetColorFPS

\* now - lastColorUpdate once a whole tick (750 ms) has gone by
ColourAgeCap == minDelta + Slack

normalizeAngle(a) ==
    LET r == JsRem(a, TAU)
    IN  IF r < 0 THEN r + TAU ELSE r

\* Mutant: t is not clamped to 1
FormationTUnclamped(elapsed) == elapsed

\* t of the formation block, as a numerator over formationDuration
FormationT(elapsed) == Min(formationDuration, elapsed)

\* 1 - e with e = 1 - (1 - t)^3, in blend units
FormationExplode(active, elapsed) ==
    LET t == FormationT(elapsed)
        e == IF active
             THEN One - 1000 * Cube(formationDuration - t)
             ELSE One
    IN  One - e

\* params.explode (in 1/1000) in blend units
ExplodeBlend(v) == v * Cube(formationDuration)

\* Mutant: the slider is ignored
EffectiveExplodeFormationOnly(fe, explode) == fe

EffectiveExplode(fe, explode) == Max(fe, ExplodeBlend(explode))

\* t of the turn block, as a numerator over turnDuration
TurnT(elapsed) == Min(turnDuration, elapsed)

\* Mutant: ease-in quadratic
EaseInQuad(t) == t * t

\* easeInOutQuad, as a numerator over turnDuration^2
Ease(t) ==
    IF 2 * t < turnDuration
    THEN 2 * t * t
    ELSE (4 * turnDuration - 2 * t) * t - turnDuration * turnDuration

TurnYaw(from, dlt, t) == from + (dlt * Ease(t)) \div (turnDuration * turnDuration)

WalkRangeOf(z) == (z * 6) \div 10

\* walkRange / 8 per second, i.e. walkRange * 0.75 / 8 per tick
DefaultWalkSpeed(range) == (range * 3) \div 32

----------------------------------------------------------------------------
(* The point cloud *)

\* samplePointsFromGeometry: n points on the surface, here along the body
SampledPositions(n) == [i \in 1..(3 * n) |-> IF i % 3 = 1 THEN 2 * (i \div 3) ELSE 0]

\* start shell: every point at radius r, scattered in +x / -x alternately
ShellPositions(n, r) ==
    [i \in 1..(3 * n) |-> IF i % 3 = 1
                          THEN (IF (i \div 3) % 2 = 0 THEN r ELSE -r)
                          ELSE 0]

SeqMin(f, idx) == CHOOSE m \in {f[i] : i \in idx} : \A i \in idx : m <= f[i]
SeqMax(f, idx) == CHOOSE m \in {f[i] : i \in idx} : \A i \in idx : m >= f[i]

\* Mutant: the span is used unguarded; 0 / 0 is NaN, written -1
StripeCoordsUnguarded(orig) ==
    LET n    == Len(orig) \div 3
        xs   == {3 * k - 2 : k \in 1..n}
        minX == SeqMin(orig, xs)
        maxX == SeqMax(orig, xs)
    IN  [k \in 1..n |-> IF maxX = minX THEN -1
                        ELSE ((orig[3 * k - 2] - minX) * 1000) \div (maxX - minX)]

\* initStripesData: (x - minX) / max(1e-6, maxX - minX), in 1/1000
StripeCoords(orig) ==
    LET n    == Len(orig) \div 3
        xs   == {3 * k - 2 : k \in 1..n}
        minX == SeqMin(orig, xs)
        maxX == SeqMax(orig, xs)
        span == Max(1, maxX - minX)
    IN  [k \in 1..n |-> ((orig[3 * k - 2] - minX) * 1000) \div span]

\* current positions are stored in blend units
Scaled(f) == [i \in 1..Len(f) |-> f[i] * One]

HeadWeight(s) == (Max(0, s - gaitFrontSplit) * 1000) \div Max(1, 1000 - gaitFrontSplit)

\* blended base position of component i, head/tail gait offsets included
BasePosition(i, orig, start, sc, blend, gaitOn, phase) ==
    LET b     == orig[i] * One + (start[i] - orig[i]) * blend
        headW == HeadWeight(sc[((i - 1) \div 3) + 1])
        tailW == 1000 - headW
        headBobY  == IF gaitOn THEN (SinMilli(phase) * gaitHeadBobAmp) \div 1000 ELSE 0
        tailSwayZ == IF gaitOn THEN (SinMilli(phase + 5) * gaitTailSwayAmp) \div 1000 ELSE 0
    IN  IF ~gaitOn THEN b
        ELSE IF i % 3 = 2 THEN b + (headBobY * headW) \div 1000
        ELSE IF i % 3 = 0 THEN b + (tailSwayZ * tailW) \div 1000
        ELSE b

\* arr[i] += (b - arr[i]) * Math.min(1, dt * 10), dt in ticks of 0.75 s
Relax(cur, b, dt) == cur + ((b - cur) * Min(2, 15 * dt)) \div 2

----------------------------------------------------------------------------
(* Initial state: init() has returned, the model is still loading *)

ProgramInit ==
    /\ loaded = FALSE
    /\ delta = 0
    /\ sinceFormationStart = 0
    /\ formationDone = FALSE
    /\ formationExplode = One
    /\ fEff = One
    /\ \E p \in BOOLEAN, g \in BOOLEAN, ex \in SavedExplode, n \in PointCounts,
          f \in SavedGaitFreq, se \in BOOLEAN, sg \in BOOLEAN, c \in Colors :
          params = [ walkSpeed |-> 0, pauseWalk |-> p, explode |-> ex,
                     gaitEnabled |-> g, gaitFreq |-> f,
                     pointCount |-> n, stripesEnabled |-> se,
                     stripesGPU |-> sg, color |-> c,
                     wobbleIntensityMult |-> DefaultWobbleMult ]
    /\ posX = 0
    /\ rotY = 0
    /\ walkDirection = 1
    /\ walkRange = 0
    /\ isTurning = FALSE
    /\ sinceTurnStart = 0
    /\ turnFrom = 0
    /\ turnDelta = 0
    /\ gaitPhase = 0
    /\ originalVertices = << >>
    /\ startVertices = << >>
    /\ stripeCoord = << >>
    /\ arr = << >>
    /\ elapsedPhase = 0
    /\ bobY = 0
    /\ swayZ = 0
    /\ addPitch = 0
    /\ material = "cpu"
    /\ vertexColors = [cpu |-> FALSE, gpu |-> FALSE]
    /\ colorLen = 0
    /\ cpuColor = 0
    /\ sinceColorUpdate = ColourAgeCap
    /\ wobbleIntensity = InitialWobbleIntensity
    /\ yawDeg = 0
    /\ frameOrder = << >>

\* no single point is being followed
NoStripePoint == [s |-> 0, count |-> 0, amp |-> 0, angle |-> 0, softness |-> 0,
                  palette |-> << >>, done |-> FALSE,
                  band |-> 0, i1 |-> 0, i2 |-> 0, mix |-> 0, colour |-> 0]
NoHoverPoint == [radius |-> 0, dist |-> 0, intensity |-> 0, angle |-> 0,
                 done |-> FALSE, inside |-> FALSE,
                 falloff |-> 0, amp |-> 0, shift |-> 0]
NoRelaxPoint == [from |-> 0, target |-> 0, slow |-> 0, fast |-> 0,
                 slowSteps |-> 0, fastSteps |-> 0, dt |-> 0]

\* the formation state of one run: the clock delta, now - formationStart,
\* formationDone and the formationExplode of its last frame
FreshRun == [delta |-> 0, sinceFormationStart |-> 0, formationDone |-> FALSE,
             formationExplode |-> One]
NoTwin == [on |-> FALSE, a |-> FreshRun, b |-> FreshRun]

Init ==
    /\ ProgramInit
    /\ stripePoint = NoStripePoint
    /\ hoverPoint = NoHoverPoint
    /\ relaxPoint = NoRelaxPoint
    /\ twin = NoTwin

----------------------------------------------------------------------------
(* The wall clock advances by one tick *)

Advance ==
    /\ delta < MaxDt
    /\ delta' = delta + 1
    /\ sinceFormationStart' =
          IF loaded /\ ~formationDone
          THEN Min(sinceFormationStart + 1, formationDuration + Slack)
          ELSE sinceFormationStart
    /\ sinceTurnStart' =
          IF isTurning
          THEN Min(sinceTurnStart + 1, turnDuration + Slack)
          ELSE sinceTurnStart
    /\ sinceColorUpdate' = ColourAgeCap
    /\ UNCHANGED << twinVars, hoverVars, poseVars, pointVars, loaded, formationDone, frameVars, params, posX, rotY,
                    walkDirection, walkRange, isTurning, turnFrom, turnDelta,
                    gaitPhase, cloudVars, arr, bodyVars, material,
                    vertexColors, colorLen, cpuColor >>

\* Time passes by a quarter of the colour interval, less than a tick
AdvanceFine ==
    /\ sinceColorUpdate < ColourAgeCap
    /\ sinceColorUpdate' = sinceColorUpdate + 1
    /\ UNCHANGED << twinVars, hoverVars, poseVars, pointVars, loaded, clockVars, formVars, frameVars, params, walkVars,
                    cloudVars, arr, bodyVars, material, vertexColors,
                    colorLen, cpuColor >>

----------------------------------------------------------------------------
(* Building the cloud: samplePointsFromGeometry, initStripesData, the start *)
(* shell and the restart of formation                                       *)

\* Mutant: the position attribute of the old geometry is kept
NewCloudKeepsPositions(n, r) ==
    /\ originalVertices' = SampledPositions(n)
    /\ stripeCoord' = StripeCoords(SampledPositions(n))
    /\ startVertices' = ShellPositions(n, r)
    /\ arr' = arr
    /\ sinceFormationStart' = 0
    /\ formationDone' = FALSE

NewCloud(n, r) ==
    /\ originalVertices' = SampledPositions(n)
    /\ stripeCoord' = StripeCoords(SampledPositions(n))
    /\ startVertices' = ShellPositions(n, r)
    /\ arr' = Scaled(ShellPositions(n, r))
    /\ sinceFormationStart' = 0
    /\ formationDone' = FALSE

\* ensureColorAttribute: length of the color attribute for n points
EnsuredColorLen(len, n) == IF len # 3 * n THEN 3 * n ELSE len

\* the tail of initStripesData on the fresh geometry of n points, and the
\* re-application of the shader material that follows it
InitStripes(n, enabled, gpu) ==
    /\ colorLen' = IF enabled THEN EnsuredColorLen(0, n) ELSE 0
    /\ sinceColorUpdate' = IF enabled /\ ~gpu THEN 0 ELSE sinceColorUpdate
    /\ vertexColors' = IF enabled /\ ~gpu
                       THEN [vertexColors EXCEPT ![material] = TRUE]
                       ELSE vertexColors
    /\ material' = IF enabled /\ gpu THEN "gpu" ELSE material

\* Mutant: the group is placed at the centre
PlaceAtCentre(z) ==
    /\ walkRange' = WalkRangeOf(z)
    /\ posX' = 0
    /\ rotY' = 0

\* walk placement at the left bound
PlaceAtLeftBound(z) ==
    /\ walkRange' = WalkRangeOf(z)
    /\ posX' = -WalkRangeOf(z)
    /\ rotY' = 0

----------------------------------------------------------------------------
(* GLTF load callback of init() *)

\* Math.max(maxDim * 0.004, params.pointSize * 0.75), in 1/1000
WobbleBase == 4

\* wobbleIntensity = Math.max(...) * params.wobbleIntensityMult
WobbleIntensityOf(mult) == WobbleBase * mult

LoadWith(z, r) ==
    /\ ~loaded
    /\ loaded' = TRUE
    /\ NewCloud(params.pointCount, r)
    /\ cpuColor' = params.color
    /\ InitStripes(params.pointCount, params.stripesEnabled, params.stripesGPU)
    /\ PlaceAtLeftBound(z)
    /\ params' = [params EXCEPT !.walkSpeed = DefaultWalkSpeed(WalkRangeOf(z))]
    /\ walkDirection' = 1
    /\ wobbleIntensity' = WobbleIntensityOf(params.wobbleIntensityMult)
    /\ UNCHANGED << twinVars, poseVars, pointVars, delta, frameVars, isTurning,
                    sinceTurnStart, turnFrom, turnDelta, gaitPhase, bodyVars >>

LoadModel == \E z \in CameraZ, r \in StartRadius : LoadWith(z, r)

----------------------------------------------------------------------------
(* One animation frame: animate() *)

\* Mutant: the translation step is not suspended while Turning
WalksWhileTurning(pause, done, turning) == ~pause /\ done

\* Guard of the translation step
Walks(pause, done, turning) == ~pause /\ done /\ ~turning

Translate(x, dir, speed, dt) == x + dir * speed * dt

AdvanceGait(phase, enabled, freq, dt) ==
    IF enabled THEN phase + dt * freq ELSE phase

HitsRight(turning, x, range) == ~turning /\ x > range
HitsLeft(turning, x, range) == ~turning /\ ~(x > range) /\ x < -range

\* Mutant: the bound checks start the turn but do not clamp the position
BoundedNoClamp(turning, x, range) == x

\* Position after the bound checks
Bounded(turning, x, range) ==
    IF HitsRight(turning, x, range) THEN range
    ELSE IF HitsLeft(turning, x, range) THEN -range
    ELSE x

\* Mutant: the turn at the left bound is the mirror image of the right one
BoundTurnDeltaMirrored(right) == IF right THEN PI ELSE -PI

\* Angle recorded as turnDelta when a bound is hit
BoundTurnDelta(right) == PI

\* Mutant: the turn block is skipped while the walk is paused
TurnBlockRunsUnlessPaused(turning, pause, done) == turning /\ ~pause

\* Guard of the turn block: if (isTurning), whatever pauseWalk and
\* formationDone are
TurnBlockRuns(turning, pause, done) == turning

\* Mutant: the end of the turn is never detected
TurnEndsNever(turning, elapsed) == FALSE

\* The turn block has reached t >= 1
TurnEnds(turning, elapsed) == turning /\ TurnT(elapsed) >= turnDuration

\* Mutant: the direction is left as it was when the turn ends
FlipDirectionStuck(d) == d

FlipDirection(d) == IF d = 1 THEN -1 ELSE 1

\* Mutant: t >= 1 does not latch formationDone
FormationDoneNotLatched(done, elapsed) == done

\* formationDone after the formation block
FormationDoneAfter(done, elapsed) ==
    done \/ (~done /\ FormationT(elapsed) >= formationDuration)

\* Guard of the body pitch, bob and sway: params.gaitEnabled && formationDone
BodyGaitOn(enabled, done) == enabled /\ done

\* Guard of the per-frame colour update
CpuStripes(enabled, gpu) == enabled /\ ~gpu

\* Mutant: every call recomputes
RecomputesUnthrottled(enabled, force, age) == enabled

\* updateStripeColors(force) recomputes the colours
Recomputes(enabled, force, age) == enabled /\ (force \/ ~(age < minDelta))

\* lastColorUpdate after updateStripeColors(force), as an age
ColourAgeAfter(enabled, force, age) ==
    IF Recomputes(enabled, force, age) THEN 0 ELSE age

\* color attribute after updateStripeColors on n points
ColourLenAfter(enabled, len, n) ==
    IF enabled THEN EnsuredColorLen(len, n) ELSE len

\* Mutant: the yaw is passed on in radians
YawDegUnconverted(rot) == JsRem((rot * 3141) \div PI, 360000)

\* pose.yawDeg = THREE.MathUtils.radToDeg(tigerGroup.rotation.y) % 360
YawDegOf(rot) == JsRem((rot * 180000) \div PI, 360000)

\* The blocks of animate in the order of the source; the colour block runs
\* when stripes are enabled on the CPU
FrameSteps(cpu) ==
    << "blend", "displace", "upload", "pitch" >>
    \o (IF cpu THEN << "colour" >> ELSE << >>)
    \o << "walk", "turn", "bobsway", "pose" >>

Frame ==
    LET dt == delta
    IN
    /\ delta' = 0
    /\ elapsedPhase' = ElapsedPhaseAfter(elapsedPhase, params.gaitFreq, dt)
    /\ IF ~loaded
       THEN UNCHANGED << twinVars, hoverVars, poseVars, pointVars, loaded, formVars, frameVars, params, walkVars,
                         cloudVars, arr, bobY, swayZ, addPitch, stripeVars >>
       ELSE
       LET \* formation + explode
           done     == FormationDoneAfter(formationDone, sinceFormationStart)
           fe       == FormationExplode(~formationDone, sinceFormationStart)
           blend    == EffectiveExplode(fe, params.explode)
           \* walking
           walks    == Walks(params.pauseWalk, done, isTurning)
           x1       == IF walks
                       THEN Translate(posX, walkDirection, params.walkSpeed, dt)
                       ELSE posX
           phase1   == IF walks
                       THEN AdvanceGait(gaitPhase, params.gaitEnabled, params.gaitFreq, dt)
                       ELSE gaitPhase
           right    == HitsRight(isTurning, x1, walkRange)
           left     == HitsLeft(isTurning, x1, walkRange)
           hit      == right \/ left
           turning1 == isTurning \/ hit
           since1   == IF hit THEN 0 ELSE sinceTurnStart
           from1    == IF hit THEN rotY ELSE turnFrom
           delta1   == IF hit THEN BoundTurnDelta(right) ELSE turnDelta
           \* turning
           runs     == TurnBlockRuns(turning1, params.pauseWalk, done)
           ends     == runs /\ TurnEnds(turning1, since1)
           \* body gait and stripes
           phase    == ElapsedPhaseAfter(elapsedPhase, params.gaitFreq, dt)
           bodyOn   == BodyGaitOn(params.gaitEnabled, done)
           cpu      == CpuStripes(params.stripesEnabled, params.stripesGPU)
           points   == Len(arr) \div 3
       IN
       /\ phase1 <= MaxGaitPhase
       /\ formationDone' = done
       /\ formationExplode' = fe
       /\ fEff' = blend
       /\ arr' = [i \in 1..Len(arr) |->
                    Relax(arr[i],
                          BasePosition(i, originalVertices, startVertices,
                                       stripeCoord, blend, params.gaitEnabled,
                                       gaitPhase),
                          dt)]
       /\ posX' = Bounded(isTurning, x1, walkRange)
       /\ gaitPhase' = phase1
       /\ sinceTurnStart' = since1
       /\ turnFrom' = from1
       /\ turnDelta' = delta1
       /\ isTurning' = (turning1 /\ ~ends)
       /\ walkDirection' = IF ends THEN FlipDirection(walkDirection) ELSE walkDirection
       /\ rotY' = IF ends THEN normalizeAngle(from1 + delta1)
                 ELSE IF runs
                      THEN normalizeAngle(TurnYaw(from1, delta1, TurnT(since1)))
                      ELSE rotY
       /\ addPitch' = IF bodyOn THEN BodyPitch(phase) ELSE 0
       /\ bobY' = IF bodyOn THEN BodyBob(phase) ELSE bobY
       /\ swayZ' = IF bodyOn THEN BodySway(phase) ELSE swayZ
       /\ colorLen' = IF cpu THEN ColourLenAfter(TRUE, colorLen, points) ELSE colorLen
       /\ sinceColorUpdate' =
             IF cpu THEN ColourAgeAfter(TRUE, FALSE, sinceColorUpdate)
             ELSE sinceColorUpdate
       /\ yawDeg' = YawDegOf(rotY')
       /\ frameOrder' = FrameSteps(cpu)
       /\ UNCHANGED << twinVars, hoverVars, pointVars, loaded, sinceFormationStart,
                       params, walkRange, cloudVars, material, vertexColors,
                       cpuColor >>

----------------------------------------------------------------------------
(* GUI handlers *)

SetPauseWalk ==
    /\ loaded
    /\ params' = [params EXCEPT !.pauseWalk = ~params.pauseWalk]
    /\ UNCHANGED << twinVars, hoverVars, poseVars, pointVars, loaded, clockVars, formVars, frameVars, walkVars,
                    cloudVars, arr, bodyVars, stripeVars >>

SetWalkSpeed ==
    /\ loaded
    /\ \E v \in GuiWalkSpeed : params' = [params EXCEPT !.walkSpeed = v]
    /\ UNCHANGED << twinVars, hoverVars, poseVars, pointVars, loaded, clockVars, formVars, frameVars, walkVars,
                    cloudVars, arr, bodyVars, stripeVars >>

SetExplode ==
    /\ loaded
    /\ \E v \in GuiExplode : params' = [params EXCEPT !.explode = v]
    /\ UNCHANGED << twinVars, hoverVars, poseVars, pointVars, loaded, clockVars, formVars, frameVars, walkVars,
                    cloudVars, arr, bodyVars, stripeVars >>

\* Wobble / Intensity x: the slider has no onChange handler
SetWobbleIntensityMult ==
    /\ loaded
    /\ \E v \in GuiWobbleMult : params' = [params EXCEPT !.wobbleIntensityMult = v]
    /\ UNCHANGED << twinVars, hoverVars, poseVars, pointVars, loaded, clockVars,
                    formVars, frameVars, walkVars, cloudVars, arr, bodyVars,
                    stripeVars >>

SetGaitEnabled ==
    /\ loaded
    /\ params' = [params EXCEPT !.gaitEnabled = ~params.gaitEnabled]
    /\ UNCHANGED << twinVars, hoverVars, poseVars, pointVars, loaded, clockVars, formVars, frameVars, walkVars,
                    cloudVars, arr, bodyVars, stripeVars >>

\* number of points of the current geometry
PointCount == Len(arr) \div 3

\* tiger.material.color.set(c): only the PointsMaterial has a color; on the
\* ShaderMaterial the property is undefined and the handler stops there
ColorSetOn(mat, old, c) == IF mat = "cpu" THEN c ELSE old

\* The material tiger.material is after the Enable Stripes handler
MaterialAfterStripes(mat, v, gpu) == IF v /\ gpu THEN "gpu" ELSE mat

\* Stripes / Enable Stripes
SetStripesEnabled ==
    LET v   == ~params.stripesEnabled
        gpu == params.stripesGPU
    IN
    /\ loaded
    /\ params' = [params EXCEPT !.stripesEnabled = v]
    /\ vertexColors' = [vertexColors EXCEPT ![material] = v /\ ~gpu]
    /\ colorLen' = IF v THEN EnsuredColorLen(colorLen, PointCount) ELSE 0
    /\ cpuColor' = IF v THEN cpuColor ELSE ColorSetOn(material, cpuColor, params.color)
    /\ material' = MaterialAfterStripes(material, v, gpu)
    /\ sinceColorUpdate' = IF v /\ ~gpu
                           THEN ColourAgeAfter(TRUE, TRUE, sinceColorUpdate)
                           ELSE sinceColorUpdate
    /\ UNCHANGED << twinVars, hoverVars, poseVars, pointVars, loaded, clockVars, formVars, frameVars, walkVars,
                    cloudVars, arr, bodyVars >>

\* Stripes / Use GPU Shader: switchStripesMaterial(useGPU)
SetStripesGPU ==
    LET useGPU == ~params.stripesGPU
        en     == params.stripesEnabled
    IN
    /\ loaded
    /\ params' = [params EXCEPT !.stripesGPU = useGPU]
    /\ material' = IF useGPU THEN "gpu" ELSE "cpu"
    /\ vertexColors' = IF useGPU THEN vertexColors
                       ELSE [vertexColors EXCEPT !.cpu = en]
    /\ colorLen' = IF useGPU THEN colorLen
                   ELSE ColourLenAfter(en, colorLen, PointCount)
    /\ sinceColorUpdate' = IF useGPU THEN sinceColorUpdate
                           ELSE ColourAgeAfter(en, TRUE, sinceColorUpdate)
    /\ UNCHANGED << twinVars, hoverVars, poseVars, pointVars, loaded, clockVars, formVars, frameVars, walkVars,
                    cloudVars, arr, bodyVars, cpuColor >>

\* Stripes / Palette (and Stripe Count, Softness, Ripple Waves): a forced
\* recomputation of the colours when the CPU path is selected
SetPalette ==
    /\ loaded
    /\ colorLen' = IF params.stripesGPU THEN colorLen
                   ELSE ColourLenAfter(params.stripesEnabled, colorLen, PointCount)
    /\ sinceColorUpdate' =
          IF params.stripesGPU THEN sinceColorUpdate
          ELSE ColourAgeAfter(params.stripesEnabled, TRUE, sinceColorUpdate)
    /\ UNCHANGED << twinVars, hoverVars, poseVars, pointVars, loaded, clockVars, formVars, frameVars, params, walkVars,
                    cloudVars, arr, bodyVars, material, vertexColors, cpuColor >>

\* Color picker
SetColor ==
    /\ loaded
    /\ \E c \in Colors :
          /\ params' = [params EXCEPT !.color = c]
          /\ cpuColor' = IF params.stripesEnabled THEN cpuColor
                         ELSE ColorSetOn(material, cpuColor, c)
    /\ colorLen' = IF params.stripesEnabled /\ ~params.stripesGPU
                   THEN EnsuredColorLen(colorLen, PointCount) ELSE colorLen
    /\ sinceColorUpdate' =
          IF params.stripesEnabled /\ ~params.stripesGPU
          THEN ColourAgeAfter(TRUE, TRUE, sinceColorUpdate)
          ELSE sinceColorUpdate
    /\ UNCHANGED << twinVars, hoverVars, poseVars, pointVars, loaded, clockVars, formVars, frameVars, walkVars,
                    cloudVars, arr, bodyVars, material, vertexColors >>

\* rebuildPointCloud with n points
RebuildWith(n, r) ==
    /\ loaded
    /\ params' = [params EXCEPT !.pointCount = n]
    /\ NewCloud(n, r)
    /\ InitStripes(n, params.stripesEnabled, params.stripesGPU)
    /\ UNCHANGED << twinVars, hoverVars, poseVars, pointVars, loaded, clockVars, frameVars, walkVars, bodyVars, cpuColor >>

\* Density / Model Up / Model Forward: onFinishChange -> rebuildPointCloud
Rebuild == \E n \in PointCounts, r \in StartRadius : RebuildWith(n, r)

\* walkDirection and isTurning after "Reset walk placement"
ResetWalkDirection(d) == d
ResetIsTurning(b) == b

\* Session / Reset To Defaults: DEFAULTS has stripesEnabled true and
\* stripesGPU false, so after the rebuild the CPU material is put back with
\* vertexColors set
ResetWith(z, r) ==
    /\ loaded
    /\ params' = [params EXCEPT !.explode = 0,
                                !.pauseWalk = FALSE,
                                !.pointCount = DefaultPointCount,
                                !.stripesEnabled = TRUE,
                                !.stripesGPU = FALSE,
                                !.color = DefaultColor,
                                !.wobbleIntensityMult = DefaultWobbleMult,
                                !.walkSpeed = DefaultWalkSpeed(WalkRangeOf(z))]
    /\ NewCloud(DefaultPointCount, r)
    /\ colorLen' = EnsuredColorLen(0, DefaultPointCount)
    /\ sinceColorUpdate' = 0
    /\ material' = "cpu"
    /\ vertexColors' = [[vertexColors EXCEPT ![material] = TRUE] EXCEPT !.cpu = TRUE]
    /\ PlaceAtLeftBound(z)
    /\ walkDirection' = ResetWalkDirection(walkDirection)
    /\ isTurning' = ResetIsTurning(isTurning)
    /\ UNCHANGED << twinVars, hoverVars, poseVars, pointVars, loaded, clockVars, frameVars, sinceTurnStart, turnFrom,
                    turnDelta, gaitPhase, bodyVars, cpuColor >>

ResetToDefaults == \E z \in CameraZ, r \in StartRadius : ResetWith(z, r)

----------------------------------------------------------------------------
(* The colour of one point: the loop body of updateStripeColors.  s, amp,   *)
(* softness, mix in 1/1000; the phase in 1/1000000; the angle of the ripple *)
(* sine in 1/20 turn; colours are the red channel of the palette entries    *)

Palettes == { << 17, 255, 17, 255 >>,
              << 255, 255, 255, 0, 0, 0, 138 >>,
              << 75, 122, 179, 243, 255 >> }
StripeCoordSamples == {0, 500, 1000}
StripeCounts == {0, 2, 3, 8}
RippleAmps == {0, 400, 1500}
RippleAngles == {0, 5, 15}
Softnesses == {-500, 800, 1000}

Clamp01(v) == Max(0, Min(1000, v))

\* Math.max(1, Math.floor(params.stripesCount))
StripesOf(count) == Max(1, count)

\* s * stripes + amp * Math.sin(...)
StripePhase(sc, count, amp, angle) ==
    sc * StripesOf(count) * 1000 + Clamp01(amp) * SinMilli(angle)

\* Math.floor(phase): \div rounds towards minus infinity
StripeBand(phase) == phase \div 1000000

StripeFrac(phase) == (phase - StripeBand(phase) * 1000000) \div 1000

\* Mutant: the remainder of a negative band is used as it is
FirstIndexRaw(band, P) == JsRem(band, P)

\* i1 = ((base % P) + P) % P
FirstIndex(band, P) == JsRem(JsRem(band, P) + P, P)

\* i2 = (i1 + 1) % P
SecondIndex(i1, P) == JsRem(i1 + 1, P)

\* gamma = lerp(8, 0.5, clamp(softness, 0, 1)), in halves
GammaHalves(softness) == 16 - (15 * Clamp01(softness)) \div 1000

Squared(x) == (x * x) \div 1000
Root(x) == CHOOSE r \in 0..1000 : r * r <= x * 1000 /\ (r + 1) * (r + 1) > x * 1000

\* Math.pow(frac, gamma) for the gammas 8, 4, 2, 1 and 0.5
StripeMix(frac, softness) ==
    LET g == GammaHalves(softness)
    IN  IF g = 16 THEN Squared(Squared(Squared(frac)))
        ELSE IF g = 8 THEN Squared(Squared(frac))
        ELSE IF g = 4 THEN Squared(frac)
        ELSE IF g = 2 THEN frac
        ELSE Root(frac)

\* lerpColor(palette[i1], palette[i2], mix); palette indices of JS are 0-based
StripeColour(palette, i1, i2, mix) ==
    palette[i1 + 1] + ((palette[i2 + 1] - palette[i1 + 1]) * mix) \div 1000

\* updateStripeColors reaches a point with these inputs
PickStripePoint ==
    /\ \E sc \in StripeCoordSamples, k \in StripeCounts, a \in RippleAmps,
          an \in RippleAngles, sf \in Softnesses, pal \in Palettes :
          stripePoint' = [NoStripePoint EXCEPT !.s = sc, !.count = k, !.amp = a,
                             !.angle = an, !.softness = sf, !.palette = pal]
    /\ UNCHANGED << twinVars, hoverVars, poseVars,
                    loaded, clockVars, formVars, frameVars, params, walkVars,
                    cloudVars, arr, bodyVars, stripeVars, hoverPoint, relaxPoint >>

\* ... and colours it
ColourPoint ==
    LET q     == stripePoint
        P     == Len(q.palette)
        phase == StripePhase(q.s, q.count, q.amp, q.angle)
        band  == StripeBand(phase)
        i1    == FirstIndex(band, P)
        i2    == SecondIndex(i1, P)
        mix   == StripeMix(StripeFrac(phase), q.softness)
    IN
    /\ P > 0
    /\ ~q.done
    /\ stripePoint' = [q EXCEPT !.done = TRUE, !.band = band, !.i1 = i1,
                           !.i2 = i2, !.mix = mix,
                           !.colour = IF i1 \in 0..(P - 1) /\ i2 \in 0..(P - 1)
                                      THEN StripeColour(q.palette, i1, i2, mix)
                                      ELSE -1]
    /\ UNCHANGED << twinVars, hoverVars, poseVars,
                    loaded, clockVars, formVars, frameVars, params, walkVars,
                    cloudVars, arr, bodyVars, stripeVars, hoverPoint, relaxPoint >>

----------------------------------------------------------------------------
(* The wobble of one point under the pointer: the hover branch of animate.  *)
(* Lengths in 1/10000 scene unit, falloff and the noise n in 1/1000         *)

HoverRadii == {4, 5, 8, 10, 20, 50}
PointerDistances == {0, 2, 4, 10, 25}
WobbleIntensities == {0, 100, 300}
NoiseAngles == {0, 5, 15}

\* Math.sqrt(1e-6), the floor of the distance
DistFloor == 10

\* d2 < r2
HoverInside(dist, radius) == dist * dist < radius * radius

\* d = Math.sqrt(Math.max(d2, 1e-6))
HoverDist(dist) == Max(dist, DistFloor)

\* falloff = 1 - d / hoverRadius
Falloff(d, radius) == 1000 - (d * 1000) \div radius

\* amp = wobbleIntensity * falloff * falloff
WobbleAmp(intensity, falloff) == (intensity * falloff * falloff) \div 1000000

\* the length of (vx, vy, vz) * amp * n for the unit vector v
WobbleShift(amp, n) == (IF amp * n < 0 THEN 0 - amp * n ELSE amp * n) \div 1000

\* the pointer rests at a distance of a point
PickHoverPoint ==
    /\ \E r \in HoverRadii, d \in PointerDistances, w \in WobbleIntensities,
          an \in NoiseAngles :
          hoverPoint' = [NoHoverPoint EXCEPT !.radius = r, !.dist = d,
                            !.intensity = w, !.angle = an]
    /\ UNCHANGED << twinVars, hoverVars, poseVars,
                    loaded, clockVars, formVars, frameVars, params, walkVars,
                    cloudVars, arr, bodyVars, stripeVars, stripePoint, relaxPoint >>

\* ... and the frame moves the point
WobblePoint ==
    LET h       == hoverPoint
        inside  == HoverInside(h.dist, h.radius)
        falloff == Falloff(HoverDist(h.dist), h.radius)
        amp     == WobbleAmp(h.intensity, falloff)
    IN
    /\ h.radius > 0
    /\ ~h.done
    /\ hoverPoint' = IF inside
                      THEN [h EXCEPT !.done = TRUE, !.inside = TRUE,
                                     !.falloff = falloff, !.amp = amp,
                                     !.shift = WobbleShift(amp, SinMilli(h.angle))]
                      ELSE [h EXCEPT !.done = TRUE]
    /\ UNCHANGED << twinVars, hoverVars, poseVars,
                    loaded, clockVars, formVars, frameVars, params, walkVars,
                    cloudVars, arr, bodyVars, stripeVars, stripePoint, relaxPoint >>

----------------------------------------------------------------------------
(* The relaxation of one coordinate towards its base position, once at 30   *)
(* frames a second and once at 240.  dt in 1/240 s, positions in 1/1000     *)

RelaxStarts == {-12000, 0, 24000}
RelaxTargets == {0, 12000}
CoarseDt == 8
FineDt == 1

\* clock deltas of a frame: none, 1/240 s, 1/30 s, 1/15 s, 0.1 s, 1/8 s
FrameDts == {0, 1, 8, 16, 24, 30}

\* Mutant: the fraction is not capped at 1
RelaxStepUncapped(cur, b, dt) == cur + ((b - cur) * (dt * 10)) \div 240

\* arr[i] += (bx - arr[i]) * Math.min(1, dt * 10)
RelaxStep(cur, b, dt) == cur + ((b - cur) * Min(240, dt * 10)) \div 240

\* a point away from its base position
PickRelaxPoint ==
    /\ \E a \in RelaxStarts, b \in RelaxTargets :
          relaxPoint' = [NoRelaxPoint EXCEPT !.from = a, !.target = b,
                            !.slow = a, !.fast = a]
    /\ UNCHANGED << twinVars, hoverVars, poseVars,
                    loaded, clockVars, formVars, frameVars, params, walkVars,
                    cloudVars, arr, bodyVars, stripeVars, stripePoint, hoverPoint >>

\* one frame of 1/30 s
RelaxCoarse ==
    /\ relaxPoint.slowSteps < MaxRelaxSteps
    /\ relaxPoint' = [relaxPoint EXCEPT
                          !.slow = RelaxStep(@, relaxPoint.target, CoarseDt),
                          !.slowSteps = @ + 1, !.dt = CoarseDt]
    /\ UNCHANGED << twinVars, hoverVars, poseVars,
                    loaded, clockVars, formVars, frameVars, params, walkVars,
                    cloudVars, arr, bodyVars, stripeVars, stripePoint, hoverPoint >>

\* one frame of 1/240 s
RelaxFine ==
    /\ relaxPoint.fastSteps < (CoarseDt \div FineDt) * MaxRelaxSteps
    /\ relaxPoint' = [relaxPoint EXCEPT
                          !.fast = RelaxStep(@, relaxPoint.target, FineDt),
                          !.fastSteps = @ + 1, !.dt = FineDt]
    /\ UNCHANGED << twinVars, hoverVars, poseVars,
                    loaded, clockVars, formVars, frameVars, params, walkVars,
                    cloudVars, arr, bodyVars, stripeVars, stripePoint, hoverPoint >>

\* one frame after a clock delta of dt: the point is outside the hover
\* radius, or the pointer has left the cloud
RelaxFrame ==
    /\ relaxPoint.slowSteps < MaxRelaxSteps
    /\ \E dt \in FrameDts :
          relaxPoint' = [relaxPoint EXCEPT
                            !.slow = RelaxStep(@, relaxPoint.target, dt),
                            !.slowSteps = @ + 1, !.dt = dt]
    /\ UNCHANGED << twinVars, hoverVars, poseVars,
                    loaded, clockVars, formVars, frameVars, params, walkVars,
                    cloudVars, arr, bodyVars, stripeVars, stripePoint, hoverPoint >>

----------------------------------------------------------------------------
(* The formation controller of two runs that get the same clock deltas and  *)
(* the same events at different wall-clock readings                         *)

\* the wall clock of a run advances by one tick
RunAdvance(r) ==
    [r EXCEPT !.delta = @ + 1,
              !.sinceFormationStart =
                  IF ~r.formationDone THEN Min(@ + 1, formationDuration + Slack)
                  ELSE @]

\* the formation block of one frame
RunFrame(r) ==
    [r EXCEPT !.delta = 0,
              !.formationDone = FormationDoneAfter(@, r.sinceFormationStart),
              !.formationExplode =
                  FormationExplode(~r.formationDone, r.sinceFormationStart)]

\* rebuildPointCloud: formationStart = performance.now(); formationDone = false
RunRestart(r) == [r EXCEPT !.sinceFormationStart = 0, !.formationDone = FALSE]

\* both runs load the model
TwinLoad ==
    /\ ~twin.on
    /\ twin' = [twin EXCEPT !.on = TRUE]
    /\ UNCHANGED << hoverVars, poseVars, pointVars, loaded, clockVars, formVars,
                    frameVars, params, walkVars, cloudVars, arr, bodyVars,
                    stripeVars >>

\* time passes in the first run
TwinAdvanceA ==
    /\ twin.on
    /\ twin.a.delta < MaxDt
    /\ twin' = [twin EXCEPT !.a = RunAdvance(@)]
    /\ UNCHANGED << hoverVars, poseVars, pointVars, loaded, clockVars, formVars,
                    frameVars, params, walkVars, cloudVars, arr, bodyVars,
                    stripeVars >>

\* time passes in the second run
TwinAdvanceB ==
    /\ twin.on
    /\ twin.b.delta < MaxDt
    /\ twin' = [twin EXCEPT !.b = RunAdvance(@)]
    /\ UNCHANGED << hoverVars, poseVars, pointVars, loaded, clockVars, formVars,
                    frameVars, params, walkVars, cloudVars, arr, bodyVars,
                    stripeVars >>

\* a frame with the same clock delta in both runs
TwinFrame ==
    /\ twin.on
    /\ twin.a.delta = twin.b.delta
    /\ twin' = [twin EXCEPT !.a = RunFrame(@), !.b = RunFrame(@)]
    /\ UNCHANGED << hoverVars, poseVars, pointVars, loaded, clockVars, formVars,
                    frameVars, params, walkVars, cloudVars, arr, bodyVars,
                    stripeVars >>

\* the same rebuild between the same two frames of both runs
TwinRebuild ==
    /\ twin.on
    /\ twin' = [twin EXCEPT !.a = RunRestart(@), !.b = RunRestart(@)]
    /\ UNCHANGED << hoverVars, poseVars, pointVars, loaded, clockVars, formVars,
                    frameVars, params, walkVars, cloudVars, arr, bodyVars,
                    stripeVars >>

----------------------------------------------------------------------------

Next ==
    \/ Advance
    \/ LoadModel
    \/ Frame
    \/ SetPauseWalk
    \/ SetWalkSpeed
    \/ SetExplode
    \/ SetGaitEnabled
    \/ Rebuild
    \/ ResetToDefaults
    \/ AdvanceFine
    \/ SetStripesEnabled
    \/ SetStripesGPU
    \/ SetPalette
    \/ SetColor
    \/ PickStripePoint
    \/ ColourPoint
    \/ PickHoverPoint
    \/ WobblePoint
    \/ PickRelaxPoint
    \/ RelaxCoarse
    \/ RelaxFine
    \/ RelaxFrame
    \/ SetWobbleIntensityMult
    \/ TwinLoad
    \/ TwinAdvanceA
    \/ TwinAdvanceB
    \/ TwinFrame
    \/ TwinRebuild

Spec == Init /\ [][Next]_vars

----------------------------------------------------------------------------
(* Scenarios: the same handlers under a narrower environment.  Each leaves  *)
(* out only handlers and input values that do not write the state its       *)
(* properties read.                                                         *)

\* Stripes as in DEFAULTS: enabled, on the CPU, default colour
DefaultStripes ==
    /\ params.stripesEnabled
    /\ ~params.stripesGPU
    /\ params.color = DefaultColor

OneRadius == {10}

\* Walking: frames, pause toggles, walk speed, rebuilds and resets; explode
\* slider at 0 and gait disabled
WalkInit ==
    /\ Init
    /\ params.explode = 0
    /\ ~params.gaitEnabled
    /\ params.gaitFreq = 0
    /\ params.pointCount = DefaultPointCount
    /\ DefaultStripes

WalkLoad == \E z \in CameraZ, r \in OneRadius : LoadWith(z, r)
WalkRebuild == \E r \in OneRadius : RebuildWith(params.pointCount, r)
WalkReset == \E z \in CameraZ, r \in OneRadius : ResetWith(z, r)

WalkNext ==
    \/ Advance
    \/ WalkLoad
    \/ Frame
    \/ SetPauseWalk
    \/ SetWalkSpeed
    \/ WalkRebuild
    \/ WalkReset

WalkSpec == WalkInit /\ [][WalkNext]_vars

\* Turning under pause and formation restarts, with the scheduling the
\* browser provides: animation frames keep arriving and time keeps passing
OneCameraZ == {160}

TurnInit == WalkInit

TurnLoad == \E z \in OneCameraZ, r \in OneRadius : LoadWith(z, r)
TurnRebuild == \E r \in OneRadius : RebuildWith(params.pointCount, r)
TurnReset == \E z \in OneCameraZ, r \in OneRadius : ResetWith(z, r)

TurnNext ==
    \/ Advance
    \/ TurnLoad
    \/ Frame
    \/ SetPauseWalk
    \/ TurnRebuild
    \/ TurnReset

TurnSpec ==
    /\ TurnInit
    /\ [][TurnNext]_vars
    /\ WF_vars(Frame)
    /\ WF_vars(Advance)

\* Formation: frames, the explode slider, rebuilds at every density and
\* resets; gait disabled
FormationInit ==
    /\ Init
    /\ ~params.gaitEnabled
    /\ params.gaitFreq = 0
    /\ ~params.pauseWalk
    /\ DefaultStripes

FormationLoad == \E z \in OneCameraZ, r \in OneRadius : LoadWith(z, r)
FormationRebuild == \E n \in PointCounts, r \in OneRadius : RebuildWith(n, r)
FormationReset == \E z \in OneCameraZ, r \in OneRadius : ResetWith(z, r)

FormationNext ==
    \/ Advance
    \/ FormationLoad
    \/ Frame
    \/ SetExplode
    \/ FormationRebuild
    \/ FormationReset

FormationSpec == FormationInit /\ [][FormationNext]_vars

\* Gait: frames and pause toggles at the default gait frequency, gait
\* enabled or disabled from start-up
GaitInit ==
    /\ Init
    /\ params.explode = 0
    /\ params.gaitFreq = DefaultGaitFreq
    /\ params.pointCount = DefaultPointCount
    /\ DefaultStripes

GaitNext ==
    \/ Advance
    \/ TurnLoad
    \/ Frame
    \/ SetPauseWalk

GaitSpec == GaitInit /\ [][GaitNext]_vars

\* Stripes: frames closer together than the colour interval, the stripe
\* controls, rebuilds at every density and resets; the walk starts paused
StripeInit ==
    /\ Init
    /\ params.explode = 0
    /\ ~params.gaitEnabled
    /\ params.gaitFreq = 0
    /\ params.pauseWalk

StripeNext ==
    \/ Advance
    \/ AdvanceFine
    \/ TurnLoad
    \/ Frame
    \/ SetStripesEnabled
    \/ SetStripesGPU
    \/ SetPalette
    \/ SetColor
    \/ FormationRebuild

StripeSpec == StripeInit /\ [][StripeNext]_vars

\* Buffers: every handler that replaces or resizes a per-point array, and
\* frames, all inside one tick
LockstepNext ==
    \/ AdvanceFine
    \/ TurnLoad
    \/ Frame
    \/ SetStripesEnabled
    \/ SetStripesGPU
    \/ SetPalette
    \/ FormationRebuild
    \/ TurnReset

LockstepSpec == StripeInit /\ [][LockstepNext]_vars

\* Walking back and forth undisturbed, pause off: the model loads, animation
\* frames keep arriving and time keeps passing
RoundInit ==
    /\ WalkInit
    /\ ~params.pauseWalk

RoundNext ==
    \/ Advance
    \/ WalkLoad
    \/ Frame

RoundSpec ==
    /\ RoundInit
    /\ [][RoundNext]_vars
    /\ WF_vars(WalkLoad)
    /\ WF_vars(Frame)
    /\ WF_vars(Advance)

\* Parameters: frames, and the pause, explode and wobble-intensity controls
ParamNext ==
    \/ Advance
    \/ TurnLoad
    \/ Frame
    \/ SetPauseWalk
    \/ SetExplode
    \/ SetWobbleIntensityMult

ParamSpec == WalkInit /\ [][ParamNext]_vars

\* The program at rest before the load, one function of a point at work
Idle ==
    /\ ProgramInit
    /\ params.explode = 0
    /\ ~params.gaitEnabled
    /\ params.gaitFreq = 0
    /\ ~params.pauseWalk
    /\ params.pointCount = DefaultPointCount
    /\ DefaultStripes

\* Stripe colours of single points
PaletteInit ==
    /\ Idle
    /\ stripePoint = NoStripePoint
    /\ hoverPoint = NoHoverPoint
    /\ relaxPoint = NoRelaxPoint
    /\ twin = NoTwin

PaletteNext ==
    \/ PickStripePoint
    \/ ColourPoint

PaletteSpec == PaletteInit /\ [][PaletteNext]_vars

\* Points under the pointer; the colour loop of the same frame runs on a
\* point in the middle of the Tiger palette
WobbleInit ==
    /\ Idle
    /\ \E a \in RippleAmps, an \in RippleAngles, sf \in Softnesses :
          stripePoint = [NoStripePoint EXCEPT !.s = 500, !.count = 3, !.amp = a,
                            !.angle = an, !.softness = sf,
                            !.palette = << 17, 255, 17, 255 >>]
    /\ hoverPoint = NoHoverPoint
    /\ relaxPoint = NoRelaxPoint
    /\ twin = NoTwin

WobbleNext ==
    \/ PickHoverPoint
    \/ WobblePoint
    \/ ColourPoint

WobbleSpec == WobbleInit /\ [][WobbleNext]_vars

\* One coordinate relaxing at two frame rates
RelaxInit ==
    /\ Idle
    /\ stripePoint = NoStripePoint
    /\ hoverPoint = NoHoverPoint
    /\ relaxPoint = NoRelaxPoint
    /\ twin = NoTwin

RelaxNext ==
    \/ PickRelaxPoint
    \/ RelaxCoarse
    \/ RelaxFine

RelaxSpec == RelaxInit /\ [][RelaxNext]_vars

\* Two runs of the formation controller
TwinNext ==
    \/ TwinLoad
    \/ TwinAdvanceA
    \/ TwinAdvanceB
    \/ TwinFrame
    \/ TwinRebuild

TwinSpec == RelaxInit /\ [][TwinNext]_vars

\* One coordinate relaxing through frames of any length
SettleNext ==
    \/ PickRelaxPoint
    \/ RelaxFrame

SettleSpec == RelaxInit /\ [][SettleNext]_vars

----------------------------------------------------------------------------
(* Properties of the walk / turn state machine *)

\* The turn block ran in this frame: a turn started, continued or ended
TurnBlockRan == isTurning \/ isTurning'

\* C1 -- Walk bound clamp: the group x position always lies within
\* [-walkRange, +walkRange], and a frame whose translation step would carry x
\* past +walkRange (or past -walkRange) leaves x exactly at that bound and
\* the machine Turning, whatever dt and speed made the step.
C1_WalkBoundClamp ==
    /\ [](posX >= -walkRange /\ posX <= walkRange)
    /\ [][(Frame /\ loaded /\ ~params.pauseWalk /\ formationDone' /\ ~isTurning) =>
            LET x1 == posX + walkDirection * params.walkSpeed * delta
            IN  /\ (x1 > walkRange => posX' = walkRange /\ isTurning')
                /\ (x1 < -walkRange => posX' = -walkRange /\ isTurning')
                /\ (x1 >= -walkRange /\ x1 <= walkRange => posX' = x1 /\ ~isTurning')
         ]_vars

\* C1 witness: a step at the slider's speed has just been clamped at +range
C1_Witness ==
    /\ loaded /\ isTurning /\ sinceTurnStart = 0 /\ delta = 0
    /\ posX = walkRange /\ walkDirection = 1 /\ params.walkSpeed = 72

\* C2 -- Facing invariant: whenever the machine is not Turning the group
\* faces its direction of travel: yaw 0 while walking direction is +1, yaw pi
\* while walking direction is -1.
C2_FacingInvariant ==
    (loaded /\ ~isTurning) =>
        /\ (walkDirection = 1 => rotY = 0)
        /\ (walkDirection = -1 => rotY = PI)

\* C4 -- The walking direction is flipped exactly once per turn, in the frame
\* in which turn progress reaches 1, the machine then being back in Walking
\* in the opposite direction; the direction changes in no other step.
C4_FlipOncePerTurn ==
    [][ /\ (walkDirection' # walkDirection =>
               /\ Frame /\ loaded
               /\ isTurning /\ ~isTurning'
               /\ sinceTurnStart >= turnDuration
               /\ walkDirection' = -walkDirection)
        /\ (isTurning /\ ~isTurning' => walkDirection' = -walkDirection)
        /\ (Frame /\ isTurning /\ sinceTurnStart >= turnDuration =>
               ~isTurning' /\ walkDirection' = -walkDirection)
        /\ (Frame /\ isTurning /\ sinceTurnStart < turnDuration =>
               isTurning' /\ walkDirection' = walkDirection)
      ]_vars

\* C4 witness: the turn at the right bound has just ended, walking back
C4_Witness ==
    /\ loaded /\ ~isTurning /\ walkDirection = -1 /\ posX = walkRange
    /\ sinceTurnStart >= turnDuration /\ delta = 0

\* C5 -- Every turn has the same rotational sense: at either bound the
\* recorded delta is +pi and the recorded start yaw is the current yaw, the
\* yaw at the end of a turn is the recorded start yaw plus pi (mod 2 pi), and
\* a second such turn brings the yaw back to where the first one started.
C5_SameRotationalSense ==
    /\ [][(Frame /\ ~isTurning /\ isTurning') =>
             /\ turnDelta' = PI
             /\ turnFrom' = rotY
             /\ posX' \in {walkRange, -walkRange}]_vars
    /\ [][(isTurning /\ ~isTurning') =>
             /\ rotY' = (turnFrom + PI) % TAU
             /\ (rotY' + PI) % TAU = turnFrom]_vars

\* C5 witness: a turn that started at yaw pi (the second of two) has ended
C5_Witness ==
    /\ loaded /\ ~isTurning /\ turnFrom = PI /\ turnDelta = PI /\ rotY = 0
    /\ posX = -walkRange /\ walkDirection = 1

\* C6 as stated -- Turn symmetry: in a turn with turnFrom = 0 and delta = pi
\* the yaw at t = 0 is 0, the yaw at t = duration is pi, and the yaw at
\* t = duration / 2 is ease(0.5) * pi, a value that is not pi / 2.
C6_TurnSymmetryAsStated ==
    [][(Frame /\ loaded /\ TurnBlockRan /\ turnFrom' = 0 /\ turnDelta' = PI) =>
          /\ (sinceTurnStart' = 0 => rotY' = 0)
          /\ (sinceTurnStart' = turnDuration => rotY' = PI)
          /\ (2 * sinceTurnStart' = turnDuration => rotY' # PI \div 2)
      ]_vars

\* C6 amended -- Turn symmetry: in a turn with turnFrom = 0 and delta = pi
\* the yaw at t = 0 is 0, the yaw at t = duration is pi, and the yaw at
\* t = duration / 2 is ease(0.5) * pi = pi / 2 (the ease-in-out quadratic is
\* symmetric about its midpoint).
C6_TurnSymmetry ==
    [][(Frame /\ loaded /\ TurnBlockRan /\ turnFrom' = 0 /\ turnDelta' = PI) =>
          /\ (sinceTurnStart' = 0 => rotY' = 0)
          /\ (sinceTurnStart' = turnDuration => rotY' = PI)
          /\ (2 * sinceTurnStart' = turnDuration => 2 * rotY' = PI)
      ]_vars

\* C6 witness: a frame has sampled the yaw of such a turn at t = duration / 2
C6_Witness ==
    /\ loaded /\ isTurning /\ turnFrom = 0 /\ turnDelta = PI /\ delta = 0
    /\ 2 * sinceTurnStart = turnDuration /\ 2 * rotY = PI

\* C3 -- A turn in progress always completes: while the machine is Turning
\* every frame advances the turn from the time elapsed since it started,
\* also when the walk is paused or formation has been restarted, so the
\* machine eventually leaves Turning; and no frame translates the group
\* while pause is set.
C3_TurnCompletes ==
    /\ (isTurning ~> ~isTurning)
    /\ [][(Frame /\ isTurning) =>
             /\ (sinceTurnStart >= turnDuration => ~isTurning')
             /\ (sinceTurnStart < turnDuration =>
                    /\ isTurning'
                    /\ rotY' = (turnFrom + (turnDelta * Ease(sinceTurnStart)) \div PI) % TAU)
         ]_vars
    /\ [][(Frame /\ params.pauseWalk) => posX' = posX]_vars

\* C3 witness: a frame has advanced a turn while the walk is paused and
\* formation has been restarted
C3_Witness ==
    /\ loaded /\ isTurning /\ params.pauseWalk /\ ~formationDone /\ delta = 0
    /\ sinceTurnStart > 0 /\ sinceTurnStart < turnDuration
    /\ rotY = (turnFrom + (turnDelta * Ease(sinceTurnStart)) \div PI) % TAU
    /\ rotY # turnFrom

----------------------------------------------------------------------------
(* Properties of the formation controller *)

RestartsFormation == sinceFormationStart' < sinceFormationStart \/ (formationDone /\ ~formationDone')

\* C7 -- Formation is one-shot: the frame in which t reaches 1 sets
\* formationDone, and from then on every frame has formationExplode = 0 and
\* leaves formationDone set; formation is restarted only by a rebuild
\* (density or orientation change, reset), which restarts it from progress 0
\* with every current position at its start position.
C7_FormationOneShot ==
    [][ /\ ((Frame /\ loaded /\ sinceFormationStart >= formationDuration) =>
               formationDone' /\ formationExplode' = 0)
        /\ ((Frame /\ loaded /\ sinceFormationStart < formationDuration /\ ~formationDone) =>
               ~formationDone' /\ formationExplode' > 0)
        /\ ((Frame /\ formationDone) => formationDone' /\ formationExplode' = 0)
        /\ ((loaded /\ RestartsFormation) =>
               /\ Rebuild \/ ResetToDefaults
               /\ sinceFormationStart' = 0
               /\ ~formationDone'
               /\ Len(arr') = Len(startVertices')
               /\ \A i \in 1..Len(arr') : arr'[i] = startVertices'[i] * One)
      ]_vars

\* C7 witness: formation had completed and a rebuild has restarted it
C7_Witness ==
    /\ loaded /\ ~formationDone /\ sinceFormationStart = 0
    /\ formationExplode = 0 /\ delta > 0
    /\ \A i \in 1..Len(arr) : arr[i] = startVertices[i] * One

\* C8 -- Formation monotonicity: formationExplode, as a function of the time
\* elapsed since the cloud was created, always lies in [0, 1], is 1 at
\* elapsed 0, is exactly 0 at every elapsed >= formationDuration, and does
\* not increase from one frame to the next.
C8_FormationMonotone ==
    /\ [](formationExplode >= 0 /\ formationExplode <= One)
    /\ [][(Frame /\ loaded) =>
             /\ ((sinceFormationStart = 0 /\ ~formationDone) => formationExplode' = One)
             /\ (sinceFormationStart >= formationDuration => formationExplode' = 0)
             /\ (sinceFormationStart > delta => formationExplode' <= formationExplode)
             /\ ((sinceFormationStart > delta /\ delta > 0 /\ formationExplode > 0) =>
                    formationExplode' < formationExplode)
         ]_vars

\* C8 witness: a frame has evaluated the curve past the end of formation
C8_Witness ==
    /\ loaded /\ formationDone /\ formationExplode = 0 /\ delta = 0
    /\ sinceFormationStart > formationDuration

\* C9 -- Most-scattered-wins: the blend factor of every frame is the larger
\* of formationExplode and the explode slider, and it is the factor the base
\* position of every point is computed with; it is never below
\* formationExplode, and once formation is complete it equals the slider.
C9_MostScatteredWins ==
    [][(Frame /\ loaded) =>
          LET slider == (params.explode * One) \div 1000
          IN  /\ fEff' >= formationExplode'
              /\ fEff' >= slider
              /\ fEff' \in {formationExplode', slider}
              /\ (formationDone' => fEff' = slider)
              /\ (delta > 0 /\ ~params.gaitEnabled =>
                    \A i \in 1..Len(arr') :
                       arr'[i] = originalVertices[i] * One
                                 + (startVertices[i] - originalVertices[i]) * fEff')
      ]_vars

\* C9 witness: formation is in progress and the slider asks for more scatter
\* than formation does
C9_Witness ==
    /\ loaded /\ ~formationDone /\ delta = 0 /\ sinceFormationStart > 0
    /\ formationExplode > 0 /\ fEff > formationExplode
    /\ fEff = (params.explode * One) \div 1000
    /\ \A i \in 1..Len(arr) :
          arr[i] = originalVertices[i] * One
                   + (startVertices[i] - originalVertices[i]) * fEff

----------------------------------------------------------------------------
(* Properties of the gait-phase accumulator *)

\* C10 -- The gait-phase accumulator never decreases, and it changes only in
\* a frame in which the walk is not paused, formation is complete and the
\* machine is not Turning; in every other frame, and in every other step, it
\* is left unchanged.
C10_GaitPhaseGated ==
    [][ /\ gaitPhase' >= gaitPhase
        /\ (gaitPhase' # gaitPhase =>
               /\ Frame /\ loaded
               /\ ~params.pauseWalk /\ formationDone' /\ ~isTurning
               /\ gaitPhase' = gaitPhase + delta * params.gaitFreq)
      ]_vars

\* C10 witness: the accumulator has advanced, and a turn is now in progress
C10_Witness ==
    /\ loaded /\ gaitPhase > 0 /\ isTurning /\ params.gaitEnabled
    /\ ~params.pauseWalk /\ formationDone /\ sinceTurnStart > 0 /\ delta = 0

----------------------------------------------------------------------------
(* Properties of the gait engine *)

\* C11 -- Body-level bob, sway and pitch are computed from the gait-phase
\* accumulator, so in a frame in which the accumulator does not advance
\* because the machine is Turning or the walk is paused (gait enabled,
\* formation complete) their values do not change.
C11_BodyGaitPauses ==
    [][(Frame /\ loaded /\ params.gaitEnabled /\ formationDone) =>
          /\ bobY' = SinMilli(gaitPhase') * gaitBobAmp
          /\ addPitch' = SinMilli(gaitPhase') * gaitPitchAmpDeg
          /\ ((isTurning \/ params.pauseWalk) /\ gaitPhase' = gaitPhase =>
                 bobY' = bobY /\ swayZ' = swayZ /\ addPitch' = addPitch)
      ]_vars

\* C12 -- Gait offsets are active only when gait is enabled and formation is
\* complete: in every frame in which formation is not complete or gait is
\* disabled the body pitch offset is zero and the target of every point is
\* exactly the blended base position rest + (start - rest) * blend (a frame
\* at least one tick after the previous one moves each point onto its
\* target).
C12_GaitOffsetsGated ==
    [][(Frame /\ loaded /\ (~formationDone' \/ ~params.gaitEnabled)) =>
          /\ addPitch' = 0
          /\ (delta > 0 =>
                \A i \in 1..Len(arr') :
                   arr'[i] = originalVertices[i] * One
                             + (startVertices[i] - originalVertices[i]) * fEff')
      ]_vars

\* C13 -- Walking is gated on formation: the load places the group at the
\* left bound, walking in the + direction; a frame in which formation is
\* not complete (initially or after a rebuild) does not change the group x
\* position, and a frame changes it only once formation has completed.
C13_WalkGatedOnFormation ==
    /\ [][(~loaded /\ loaded') =>
             walkRange' > 0 /\ posX' = -walkRange' /\ walkDirection' = 1]_vars
    /\ [][(Frame /\ ~formationDone') => posX' = posX]_vars
    /\ [][(Frame /\ posX' # posX) => loaded /\ formationDone']_vars

\* C13 witness: a rebuild restarted formation in mid-walk and a later frame
\* has left the group where it was
C13_Witness ==
    /\ loaded /\ ~formationDone /\ sinceFormationStart > 0 /\ delta = 0
    /\ ~params.pauseWalk /\ ~isTurning /\ params.walkSpeed > 0
    /\ posX > -walkRange /\ posX < walkRange

----------------------------------------------------------------------------
(* Properties of the stripe colourer and of the per-point buffers *)

\* The cloud is drawn in one flat colour, the configured one
DrawnFlat ==
    material = "cpu" /\ ~vertexColors.cpu /\ cpuColor = params.color

\* C14 -- Disabling striping, from the CPU or from the GPU stripe mode,
\* leaves the cloud with no per-point color buffer and every point drawn
\* with the single flat configured color.
C14_DisableStripesFlat ==
    [][(loaded /\ params.stripesEnabled /\ ~params'.stripesEnabled) =>
          colorLen' = 0 /\ DrawnFlat']_vars

\* C15 -- Buffer lockstep: in every state a frame can start from, the
\* current-position, rest-position and start-position arrays have the same
\* length 3N, the stripe-coordinate array has length N and, when CPU
\* striping is enabled, the color array has length 3N, N being the requested
\* point count; a step that changes the length of one of them changes all of
\* them together.
C15_BufferLockstep ==
    /\ [](loaded =>
            /\ Len(arr) = 3 * params.pointCount
            /\ Len(originalVertices) = Len(arr)
            /\ Len(startVertices) = Len(arr)
            /\ 3 * Len(stripeCoord) = Len(arr)
            /\ (params.stripesEnabled /\ ~params.stripesGPU => colorLen = Len(arr)))
    /\ [](~loaded =>
            Len(arr) = 0 /\ Len(originalVertices) = 0 /\ Len(startVertices) = 0
            /\ Len(stripeCoord) = 0 /\ colorLen = 0)
    /\ [][Len(arr') # Len(arr) =>
            /\ Len(originalVertices') # Len(originalVertices)
            /\ Len(startVertices') # Len(startVertices)
            /\ Len(stripeCoord') # Len(stripeCoord)
            /\ ~Frame]_vars

\* C15 witness: Reset To Defaults has rebuilt a one-point cloud with the
\* default number of points, colour buffer included
C15_Witness ==
    /\ loaded /\ ~params.pauseWalk /\ params.pointCount = DefaultPointCount
    /\ Len(arr) = 3 * DefaultPointCount /\ colorLen = 3 * DefaultPointCount
    /\ Len(stripeCoord) = DefaultPointCount

\* C16 -- Colour throttle: a frame recomputes the stripe colours only when
\* at least 1000 / targetColorFPS ms have passed since the last
\* recomputation, whatever the spacing of the frames, so two consecutive
\* non-forced recomputations are at least that far apart; a forced
\* recomputation runs whatever time has passed and restarts the interval.
C16_ColourThrottle ==
    /\ [][(Frame /\ loaded /\ params.stripesEnabled /\ ~params.stripesGPU) =>
             /\ (targetColorFPS * sinceColorUpdate < ColourTicksPerSecond =>
                    sinceColorUpdate' = sinceColorUpdate)
             /\ (targetColorFPS * sinceColorUpdate >= ColourTicksPerSecond =>
                    sinceColorUpdate' = 0)]_vars
    /\ [][(Frame /\ ~(loaded /\ params.stripesEnabled /\ ~params.stripesGPU)) =>
             sinceColorUpdate' = sinceColorUpdate]_vars
    /\ [][((SetPalette \/ SetStripesEnabled \/ SetStripesGPU \/ SetColor)
            /\ params'.stripesEnabled /\ ~params'.stripesGPU) =>
             sinceColorUpdate' = 0]_vars

\* C16 witness: exactly the interval has passed since a recomputation
C16_Witness ==
    /\ loaded /\ params.stripesEnabled /\ ~params.stripesGPU
    /\ targetColorFPS * sinceColorUpdate = ColourTicksPerSecond
    /\ colorLen = Len(arr) /\ delta = 0

\* C17 -- Stripe palette cyclic wrap: with amplitude 0 and an integer stripe
\* count k the band at s = 0 is 0 and the colour is palette[0], and the band
\* at s = 1 is k and the colour is palette[k mod P]; for every phase,
\* negative ones produced by the ripple term included, both palette indices
\* lie within 0..P-1 and the second is (first + 1) mod P.
C17_PaletteWrap ==
    stripePoint.done =>
        LET q == stripePoint
            P == Len(q.palette)
            k == IF q.count < 1 THEN 1 ELSE q.count
        IN  /\ q.i1 \in 0..(P - 1)
            /\ q.i2 \in 0..(P - 1)
            /\ q.i2 = (q.i1 + 1) % P
            /\ (q.band - q.i1) % P = 0
            /\ (q.amp = 0 /\ q.s = 0 =>
                   q.band = 0 /\ q.i1 = 0 /\ q.colour = q.palette[1])
            /\ (q.amp = 0 /\ q.s = 1000 =>
                   q.band = k /\ q.i1 = k % P /\ q.colour = q.palette[(k % P) + 1])

\* C17 witness: a point at s = 0 pushed to a negative phase by the ripple
\* has been coloured from the last and the first palette entry
C17_Witness ==
    /\ stripePoint.done /\ stripePoint.s = 0 /\ stripePoint.band = -1
    /\ stripePoint.i1 = Len(stripePoint.palette) - 1 /\ stripePoint.i2 = 0

\* C18 -- Wobble boundedness: for every point inside the hover radius, for
\* any hover radius, distance and intensity, the displacement added to the
\* base position never exceeds the wobble intensity.
C18_WobbleBounded ==
    hoverPoint.done /\ hoverPoint.inside =>
        hoverPoint.shift <= hoverPoint.intensity

\* C19 -- The ratios falloff (hover) and mix (stripe blend) are within
\* [0, 1] at every use, for any parameter values, a hover radius below the
\* distance floor and an out-of-range softness included.
C19_RatiosInUnitRange ==
    /\ (hoverPoint.done /\ hoverPoint.inside => hoverPoint.falloff \in 0..1000)
    /\ (stripePoint.done => stripePoint.mix \in 0..1000)

\* C20 -- Frame-rate independence of relaxation: for a fixed total elapsed
\* time and a fixed target, repeating the relaxation step with dt = 1/30 and
\* repeating it with dt = 1/240 leave the point at the same position within
\* a small tolerance (here 5 %) of the initial gap.
C20_FrameRateIndependent ==
    LET q    == relaxPoint
        gap  == IF q.from < q.target THEN q.target - q.from ELSE q.from - q.target
        diff == IF q.slow < q.fast THEN q.fast - q.slow ELSE q.slow - q.fast
    IN  q.slowSteps >= 1 /\ q.fastSteps * FineDt = q.slowSteps * CoarseDt =>
            20 * diff <= gap

\* C21 -- Relaxation step: for a point outside the hover radius, or when no
\* hover point exists, one frame moves the current position toward its base
\* b by exactly the fraction min(1, dt * 10) of the remaining gap, so the gap
\* never grows or changes sign; a displaced point is not reset to b in one
\* frame unless dt >= 0.1.
C21_RelaxationStep ==
    [][relaxPoint'.slowSteps = relaxPoint.slowSteps + 1 =>
          LET gap  == relaxPoint.target - relaxPoint.slow
              gap2 == relaxPoint'.target - relaxPoint'.slow
              dt   == relaxPoint'.dt
              f    == IF 10 * dt < 240 THEN 10 * dt ELSE 240
          IN  /\ (gap >= 0 => gap2 >= 0 /\ gap2 <= gap)
              /\ (gap <= 0 => gap2 <= 0 /\ gap2 >= gap)
              /\ 240 * (gap - gap2) <= gap * f
              /\ 240 * (gap - gap2) > gap * f - 240
              /\ (gap # 0 /\ dt < 24 => gap2 # 0)
              /\ (dt >= 24 => gap2 = 0)
      ]_vars

\* C21 witness: a displaced point has moved part of the way in a frame of
\* 1/30 s
C21_Witness ==
    /\ relaxPoint.slowSteps = 1 /\ relaxPoint.dt = 8
    /\ relaxPoint.from = 24000 /\ relaxPoint.target = 0
    /\ relaxPoint.slow = 16000

\* C22 -- Every parameter write made by the interaction layer (here the
\* pause flag, the explode slider, the walk speed and the wobble intensity)
\* is in effect in the computation of the next frame after the write.
C22_WritesConsumedNextFrame ==
    [][(Frame /\ loaded) =>
          /\ fEff' = Max(formationExplode', ExplodeBlend(params.explode))
          /\ (params.pauseWalk => posX' = posX)
          /\ (~params.pauseWalk /\ formationDone' /\ ~isTurning
                 /\ posX + walkDirection * params.walkSpeed * delta <= walkRange
                 /\ posX + walkDirection * params.walkSpeed * delta >= -walkRange
                => posX' = posX + walkDirection * params.walkSpeed * delta)
          /\ wobbleIntensity = WobbleIntensityOf(params.wobbleIntensityMult)
      ]_vars

\* Every a in the sequence of blocks comes before every b
RunsBefore(order, a, b) ==
    \A i, j \in 1..Len(order) : order[i] = a /\ order[j] = b => i < j

\* C23 -- Order within one frame: the formation blend is computed first,
\* then hover/wobble and gait displacement, then the position buffer is
\* marked for upload, then walk/turn and gait-phase advancement, and colour
\* recomputation comes last, after walk/turn and gait-phase advancement.
C23_FrameOrder ==
    loaded =>
        /\ RunsBefore(frameOrder, "blend", "displace")
        /\ RunsBefore(frameOrder, "displace", "upload")
        /\ RunsBefore(frameOrder, "upload", "walk")
        /\ RunsBefore(frameOrder, "upload", "turn")
        /\ RunsBefore(frameOrder, "walk", "colour")
        /\ RunsBefore(frameOrder, "turn", "colour")

\* C24 -- dt is the sole time input: two runs that start in the same
\* animation state and receive the same sequence of dt values and the same
\* interaction events reach the same formation state after every frame,
\* whatever the absolute wall-clock readings between frames.
C24_DtSoleTimeInput ==
    twin.on =>
        /\ twin.a.formationDone = twin.b.formationDone
        /\ twin.a.formationExplode = twin.b.formationExplode

\* C25 -- The blend factor consumed by the displacement step lies in [0, 1]
\* in every frame, for every explode value that can reach the core through
\* the GUI or through loaded settings.
C25_BlendInUnitRange == fEff >= 0 /\ fEff <= One

\* C26 -- Stripe coordinate: after every load or rebuild each point's stripe
\* coordinate equals (restX - minX) / max(epsilon, maxX - minX) and lies in
\* [0, 1]; when all points share the same X every stripe coordinate is 0.
C26_StripeCoordinate ==
    loaded =>
        LET n    == Len(originalVertices) \div 3
            X(k) == originalVertices[3 * k - 2]
        IN  /\ Len(stripeCoord) = n
            /\ \A k \in 1..n : stripeCoord[k] >= 0 /\ stripeCoord[k] <= 1000
            /\ \A lo, hi \in 1..n :
                  (\A k \in 1..n : X(lo) <= X(k) /\ X(k) <= X(hi)) =>
                      /\ (X(hi) > X(lo) =>
                             \A k \in 1..n :
                                stripeCoord[k] * (X(hi) - X(lo)) = (X(k) - X(lo)) * 1000)
                      /\ (X(hi) = X(lo) => \A k \in 1..n : stripeCoord[k] = 0)

\* C26 witness: a cloud of zero span is being formed, frames have run
C26_Witness ==
    /\ loaded /\ Len(originalVertices) = 3 /\ stripeCoord = << 0 >>
    /\ params.pointCount = 1 /\ ~formationDone /\ yawDeg = 0 /\ frameOrder # << >>

\* C27 -- The yaw exposed for display is in degrees and lies in [0, 360)
\* after every frame, in every state reachable by walking, turning and
\* resets.
C27_YawDegNormalised ==
    /\ [](yawDeg >= 0 /\ yawDeg < 360000)
    /\ [][(loaded /\ delta' = 0 /\ frameOrder' # << >> /\ Frame) =>
             /\ yawDeg' * PI <= rotY' * 180000
             /\ (yawDeg' + 1) * PI > rotY' * 180000
             /\ (rotY' = PI => yawDeg' = 180000)
         ]_vars

\* C27 witness: a frame has sampled the yaw half-way through the turn back
\* at the left bound, at 270 degrees
C27_Witness ==
    /\ loaded /\ isTurning /\ turnFrom = PI /\ delta = 0
    /\ 2 * sinceTurnStart = turnDuration /\ yawDeg = 270000

\* C28 -- After reset-to-defaults, whatever walk state it is invoked in
\* (walking in either direction, or mid-turn), the walk state machine is
\* back in its initial state: group at the left bound x = -walkRange, yaw 0,
\* walking direction +1, not turning.
C28_ResetRestoresWalk ==
    [][(loaded /\ sinceFormationStart' = 0 /\ ~formationDone' /\ WalkReset) =>
          /\ posX' = -walkRange'
          /\ rotY' = 0
          /\ walkDirection' = 1
          /\ ~isTurning'
      ]_vars

\* C29 -- Stripe render mode matches the flags after any sequence of
\* 'Enable Stripes' toggles, 'Use GPU Shader' toggles, rebuilds and resets:
\* the GPU stripe shader material is active if and only if stripesEnabled
\* and stripesGPU are both true; otherwise the CPU points material is active
\* with per-vertex colours on exactly when stripesEnabled is true.
C29_RenderModeMatchesFlags ==
    loaded =>
        /\ (material = "gpu" <=> params.stripesEnabled /\ params.stripesGPU)
        /\ (material = "cpu" => (vertexColors.cpu <=> params.stripesEnabled))

\* C30 -- Walk liveness: with walk speed > 0, pause off, formation complete
\* and frames (with advancing time) continuing to arrive, every Walking(d)
\* state is eventually followed by Turning at the bound in direction d, and
\* every Turning by Walking(-d), so the group reaches each of the two bounds
\* infinitely often.
C30_WalkLiveness ==
    /\ ((loaded /\ formationDone /\ ~isTurning /\ walkDirection = 1)
            ~> (isTurning /\ walkDirection = 1 /\ posX = walkRange))
    /\ ((loaded /\ formationDone /\ ~isTurning /\ walkDirection = -1)
            ~> (isTurning /\ walkDirection = -1 /\ posX = -walkRange))
    /\ ((isTurning /\ walkDirection = 1) ~> (~isTurning /\ walkDirection = -1))
    /\ ((isTurning /\ walkDirection = -1) ~> (~isTurning /\ walkDirection = 1))
    /\ []<>(loaded /\ posX = walkRange)
    /\ []<>(loaded /\ posX = -walkRange)

\* C30 witness: after a full round the group is walking its second leg in
\* direction +1, between the bounds
C30_Witness ==
    /\ loaded /\ formationDone /\ ~isTurning /\ walkDirection = 1
    /\ turnFrom = PI /\ rotY = 0 /\ params.walkSpeed > 0 /\ ~params.pauseWalk
    /\ posX > -walkRange /\ posX < walkRange

====
